---------------------------- MODULE Spec2Model ----------------------------
(***************************************************************************)
(* Model of the attestation controller of contract-verifier-backend:       *)
(* Controller.addSource (propose), Controller.sign (cosign) and            *)
(* addSignatureCell of src/src/controller.ts, with the message validator   *)
(* (validate-message-cell) and the cell builders (cell-builders), which    *)
(* the controller imports, modelled from spec.md sections 4.2 and 4.3 and  *)
(* from the controller test-suite (src/unnamed/part_000).                  *)
(*                                                                         *)
(* A cell is [bits |-> sequence of fields, refs |-> sequence of cells]; a  *)
(* field is [w |-> bit width, v |-> tuple of integers].  Slice reads take  *)
(* fields from the front of bits and references from the front of refs.    *)
(***************************************************************************)
EXTENDS Integers, Sequences, FiniteSets, TLC

\* ------------------------------------------------------------------ bounds
\* Largest quorum of a VerifierSetConfig, and longest crafted signature chain.
MaxQuorum == 3
\* Last instant of the clock (seconds, coarse).
MaxTime == 2

\* --------------------------------------------------------- wire constants
FORWARD_MESSAGE_OP == 75
DEPLOY_SOURCE_OP == 76
SIG_BITS == 512
KEY_BITS == 256
HASH_BITS == 256
OP_BITS == 32
QUERY_BITS == 64
ADDR_BITS == 267

\* ------------------------------------------------------------------ cells
Field(w, v) == [w |-> w, v |-> v]
MkCell(bits, refs) == [bits |-> bits, refs |-> refs]
\* new Cell()
EmptyCell == MkCell(<<>>, <<>>)

RECURSIVE SumWidths(_)
SumWidths(bits) ==
    IF bits = <<>> THEN 0 ELSE Head(bits).w + SumWidths(Tail(bits))

\* slice.remainingBits / slice.remainingRefs of cell.beginParse()
remainingBits(cell) == SumWidths(cell.bits)
remainingRefs(cell) == Len(cell.refs)

RECURSIVE FlatBits(_)
FlatBits(bits) ==
    IF bits = <<>> THEN <<>>
    ELSE <<Head(bits).w>> \o Head(bits).v \o FlatBits(Tail(bits))

\* cell.hash(): the representation hash, folded bottom-up from the cell's
\* bits and its children's hashes; injective on the cells of the model.
RECURSIVE CellHash(_)
RECURSIVE HashRefs(_)
HashRefs(refs) ==
    IF refs = <<>> THEN <<>> ELSE CellHash(Head(refs)) \o HashRefs(Tail(refs))
CellHash(cell) ==
    <<Len(cell.bits)>> \o FlatBits(cell.bits) \o <<Len(cell.refs)>> \o HashRefs(cell.refs)

\* builder.storeRef(c) on the builder of a cell
storeRef(cell, c) == MkCell(cell.bits, Append(cell.refs, c))

\* ------------------------------------------------------------ signatures
\* Key pairs: the secret key of public key k is -k.
KeyPairOf(k) == [publicKey |-> k, secretKey |-> 0 - k]
fromSecretKey(sk) == [publicKey |-> 0 - sk, secretKey |-> sk]
\* tweetnacl.sign.detached(msg, secretKey): deterministic in msg and key.
signDetached(msg, sk) == <<0 - sk>> \o msg
\* tweetnacl.sign.detached.verify(msg, sig, publicKey)
verifyDetached(msg, sig, pk) == sig = <<pk>> \o msg

\* sha256(verifierId): injective on the verifier ids of the model.
sha256(id) == <<id>>

\* ---------------------------------------------------------- cell builders
\* Validity window cellToSign gives a new message, in clock ticks.
VALID_FOR == 2

\* The reference blob holding the content pointer: a tag byte and the link.
ipfsLinkCell(link) == MkCell(<<Field(8, <<1>>), Field(8 * Len(link), link)>>, <<>>)

\* deploySource(queryId, codeHash, ipfsLink, verifierId): DeploySourcePayload
deploySource(queryId, codeHash, link, verifierSha) ==
    MkCell(<<Field(OP_BITS, <<DEPLOY_SOURCE_OP>>), Field(QUERY_BITS, <<queryId>>),
             Field(HASH_BITS, verifierSha), Field(HASH_BITS, <<codeHash>>)>>,
           <<ipfsLinkCell(link)>>)

\* The SignedPayload around a DeploySourcePayload, expiring at expiresAt.
signedPayload(verifierSha, expiresAt, sender, registry, inner) ==
    MkCell(<<Field(HASH_BITS, verifierSha), Field(OP_BITS, <<expiresAt>>),
             Field(ADDR_BITS, <<sender>>), Field(ADDR_BITS, <<registry>>)>>,
           <<inner>>)

\* cellToSign(senderAddress, queryId, codeHash, ipfsLink, registry, verifierId)
\* read at clock time t.
cellToSign(sender, queryId, codeHash, link, registry, verifierSha, t) ==
    signedPayload(verifierSha, t + VALID_FOR, sender, registry,
                  deploySource(queryId, codeHash, link, verifierSha))

\* A SignatureNode without successor: 64 signature bytes, 32 key bytes.
sigNode(sig, pk) == MkCell(<<Field(SIG_BITS, sig), Field(KEY_BITS, <<pk>>)>>, <<>>)

\* signatureCell(msgToSign, keypair) -> {sig, sigCell}
signatureCell(msgToSign, keypair) ==
    LET sig == signDetached(CellHash(msgToSign), keypair.secretKey)
    IN  [sig |-> sig, sigCell |-> sigNode(sig, keypair.publicKey)]

\* verifierRegistryForwardMessage(queryId, msgToSign, sigCell)
verifierRegistryForwardMessage(queryId, msgToSign, sigCell) ==
    MkCell(<<Field(OP_BITS, <<FORWARD_MESSAGE_OP>>), Field(QUERY_BITS, <<queryId>>)>>,
           <<msgToSign, sigCell>>)

\* ------------------------------------------------------- addSignatureCell
TooManyReferences == "TooManyReferences"

\* Mutant: the new node replaces the child instead of being appended below it.
addSignatureCell_ReplacesChild(node, sigCell) ==
    IF remainingRefs(node) > 1
    THEN [err |-> TooManyReferences, cell |-> EmptyCell]
    ELSE [err |-> "", cell |-> storeRef(MkCell(node.bits, <<>>), sigCell)]

\* Mutant: the new node becomes the head, the old chain its child.
addSignatureCell_AtHead(node, sigCell) ==
    IF remainingRefs(node) > 1
    THEN [err |-> TooManyReferences, cell |-> EmptyCell]
    ELSE [err |-> "", cell |-> storeRef(MkCell(sigCell.bits, <<>>), node)]

\* Mutant: the descent counts no references.
RECURSIVE addSignatureCell_NoRefCheck(_, _)
addSignatureCell_NoRefCheck(node, sigCell) ==
    IF remainingRefs(node) > 0
    THEN LET sub == addSignatureCell_NoRefCheck(node.refs[1], sigCell)
         IN  [err |-> "", cell |-> storeRef(MkCell(node.bits, <<>>), sub.cell)]
    ELSE [err |-> "", cell |-> storeRef(MkCell(node.bits, <<>>), sigCell)]

\* addSignatureCell(node, sigCell): the descent to the tail.  The result is
\* [err |-> "" or the error thrown, cell |-> the rebuilt node].
RECURSIVE addSignatureCell(_, _)
addSignatureCell(node, sigCell) ==
    IF remainingRefs(node) > 0
    THEN IF remainingRefs(node) > 1
         THEN [err |-> TooManyReferences, cell |-> EmptyCell]
         ELSE LET sub == addSignatureCell(node.refs[1], sigCell)
              IN  IF sub.err # ""
                  THEN sub
                  ELSE [err |-> "", cell |-> storeRef(MkCell(node.bits, <<>>), sub.cell)]
    ELSE [err |-> "", cell |-> storeRef(MkCell(node.bits, <<>>), sigCell)]

\* ------------------------------------------------------ message validator
\* The checks of the envelope cascade, in the order they are made.
StepRoot == 1
StepOperation == 2
StepVerifierBody == 3
StepVerifierIdOuter == 4
StepExpired == 5
StepRegistryAddress == 6
StepRegistryBody == 7
StepDeploySourceOp == 8
StepVerifierIdInner == 9
\* No check fails.
StepNone == 10

ROOT_BITS == OP_BITS + QUERY_BITS
PAYLOAD_BITS == HASH_BITS + OP_BITS + ADDR_BITS + ADDR_BITS
INNER_BITS == OP_BITS + QUERY_BITS + HASH_BITS + HASH_BITS

\* The shape tests of the cascade.
rootShapeOk(cell) == remainingRefs(cell) >= 2 /\ remainingBits(cell) >= ROOT_BITS
payloadShapeOk(p) == remainingRefs(p) >= 1 /\ remainingBits(p) >= PAYLOAD_BITS
innerShapeOk(i) == remainingRefs(i) >= 1 /\ remainingBits(i) >= INNER_BITS

\* The first failing check of the envelope cascade (spec.md 4.2, steps 1-7)
\* on `cell`, for a verifier of identity hash verifierSha and registry
\* address `registry`, at clock time t.
failingStep_ExpiryStrict(cell, verifierSha, registry, t) ==
    IF ~rootShapeOk(cell) THEN StepRoot
    ELSE IF cell.bits[1].v # <<FORWARD_MESSAGE_OP>> THEN StepOperation
    ELSE LET p == cell.refs[1] IN
    IF ~payloadShapeOk(p) THEN StepVerifierBody
    ELSE IF p.bits[1].v # verifierSha THEN StepVerifierIdOuter
    ELSE IF p.bits[2].v[1] < t THEN StepExpired
    ELSE IF p.bits[4].v # <<registry>> THEN StepRegistryAddress
    ELSE LET i == p.refs[1] IN
    IF ~innerShapeOk(i) THEN StepRegistryBody
    ELSE IF i.bits[1].v # <<DEPLOY_SOURCE_OP>> THEN StepDeploySourceOp
    ELSE IF i.bits[3].v # verifierSha THEN StepVerifierIdInner
    ELSE StepNone

failingStep_RegistryBeforeExpiry(cell, verifierSha, registry, t) ==
    IF ~rootShapeOk(cell) THEN StepRoot
    ELSE IF cell.bits[1].v # <<FORWARD_MESSAGE_OP>> THEN StepOperation
    ELSE LET p == cell.refs[1] IN
    IF ~payloadShapeOk(p) THEN StepVerifierBody
    ELSE IF p.bits[1].v # verifierSha THEN StepVerifierIdOuter
    ELSE IF p.bits[4].v # <<registry>> THEN StepRegistryAddress
    ELSE IF p.bits[2].v[1] <= t THEN StepExpired
    ELSE LET i == p.refs[1] IN
    IF ~innerShapeOk(i) THEN StepRegistryBody
    ELSE IF i.bits[1].v # <<DEPLOY_SOURCE_OP>> THEN StepDeploySourceOp
    ELSE IF i.bits[3].v # verifierSha THEN StepVerifierIdInner
    ELSE StepNone

failingStep(cell, verifierSha, registry, t) ==
    IF ~rootShapeOk(cell) THEN StepRoot
    ELSE IF cell.bits[1].v # <<FORWARD_MESSAGE_OP>> THEN StepOperation
    ELSE LET p == cell.refs[1] IN
    IF ~payloadShapeOk(p) THEN StepVerifierBody
    ELSE IF p.bits[1].v # verifierSha THEN StepVerifierIdOuter
    ELSE IF p.bits[2].v[1] <= t THEN StepExpired
    ELSE IF p.bits[4].v # <<registry>> THEN StepRegistryAddress
    ELSE LET i == p.refs[1] IN
    IF ~innerShapeOk(i) THEN StepRegistryBody
    ELSE IF i.bits[1].v # <<DEPLOY_SOURCE_OP>> THEN StepDeploySourceOp
    ELSE IF i.bits[3].v # verifierSha THEN StepVerifierIdInner
    ELSE StepNone

\* The failure kind each check reports.
stepError(step) ==
    CASE step = StepRoot -> "InvalidCell"
      [] step = StepOperation -> "InvalidOperation"
      [] step = StepVerifierBody -> "InvalidVerifierBodyCell"
      [] step = StepVerifierIdOuter -> "InvalidVerifierId"
      [] step = StepExpired -> "MessageExpired"
      [] step = StepRegistryAddress -> "InvalidSourcesRegistryAddress"
      [] step = StepRegistryBody -> "InvalidSourcesRegistryBodyCell"
      [] step = StepDeploySourceOp -> "InvalidDeploySourceOp"
      [] step = StepVerifierIdInner -> "InvalidVerifierId"
      [] OTHER -> ""

\* ------------------------------------------------------ multisig validator
Range(seq) == {seq[i] : i \in 1..Len(seq)}

\* A node has the shape of a SignatureNode: exactly signature plus key
\* bits, and at most one child reference.
sigCellShapeOk_IgnoresRefs(node) ==
    remainingBits(node) = SIG_BITS + KEY_BITS

sigCellShapeOk(node) ==
    remainingBits(node) = SIG_BITS + KEY_BITS /\ remainingRefs(node) <= 1

\* The checks made on one node of the chain, given the keys seen before it
\* (spec.md 4.3); "" when the node passes.  The count includes the
\* signature the call is about to add.
nodeError_NoDuplicateCheck(node, seen, msgHash, config) ==
    IF ~sigCellShapeOk(node) THEN "InvalidSignatureCell"
    ELSE LET sig == node.bits[1].v
             pk == node.bits[2].v[1]
         IN  IF ~verifyDetached(msgHash, sig, pk) THEN "InvalidSignature"
             ELSE IF pk \notin Range(config.verifiers) THEN "NotInMultisigConfig"
             ELSE IF Len(seen) + 1 + 1 > config.quorum THEN "TooManySignatures"
             ELSE ""

nodeError_NoMembershipCheck(node, seen, msgHash, config) ==
    IF ~sigCellShapeOk(node) THEN "InvalidSignatureCell"
    ELSE LET sig == node.bits[1].v
             pk == node.bits[2].v[1]
         IN  IF ~verifyDetached(msgHash, sig, pk) THEN "InvalidSignature"
             ELSE IF pk \in Range(seen) THEN "DuplicateSignature"
             ELSE IF Len(seen) + 1 + 1 > config.quorum THEN "TooManySignatures"
             ELSE ""

nodeError(node, seen, msgHash, config) ==
    IF ~sigCellShapeOk(node) THEN "InvalidSignatureCell"
    ELSE LET sig == node.bits[1].v
             pk == node.bits[2].v[1]
         IN  IF ~verifyDetached(msgHash, sig, pk) THEN "InvalidSignature"
             ELSE IF pk \notin Range(config.verifiers) THEN "NotInMultisigConfig"
             ELSE IF pk \in Range(seen) THEN "DuplicateSignature"
             ELSE IF Len(seen) + 1 + 1 > config.quorum THEN "TooManySignatures"
             ELSE ""

\* The head-to-tail walk: [err, keys walked and accepted, nodes inspected].
RECURSIVE walkChain(_, _, _, _)
walkChain(node, seen, msgHash, config) ==
    LET e == nodeError(node, seen, msgHash, config) IN
    IF e # "" THEN [err |-> e, keys |-> seen, inspected |-> Len(seen) + 1]
    ELSE LET keys == Append(seen, node.bits[2].v[1]) IN
         IF remainingRefs(node) = 1
         THEN walkChain(node.refs[1], keys, msgHash, config)
         ELSE [err |-> "", keys |-> keys, inspected |-> Len(keys)]

\* validateSignatureCell: the quorum test, the walk, then the tests on the
\* running verifier's own key.
validateSignatureCell(head, msgHash, keypair, config) ==
    IF config.quorum <= 1
    THEN [err |-> "QuorumTooSmall", keys |-> <<>>, inspected |-> 0]
    ELSE LET w == walkChain(head, <<>>, msgHash, config) IN
         IF w.err # "" THEN w
         ELSE IF keypair.publicKey \in Range(w.keys)
              THEN [w EXCEPT !.err = "AlreadySignedBySelf"]
         ELSE IF keypair.publicKey \notin Range(config.verifiers)
              THEN [w EXCEPT !.err = "NotInMultisigConfig"]
         ELSE w

\* validateMessageCell(cell, verifierId, sourcesRegistryAddress, keypair,
\* verifierConfig) at clock time t: the envelope cascade, then the multisig
\* validator over the second reference.  err = "" is the validated output.
validateMessageCell(cell, verifierSha, registry, keypair, config, t) ==
    LET step == failingStep(cell, verifierSha, registry, t)
        none == [err |-> stepError(step), step |-> step, inspected |-> 0, keys |-> <<>>,
                 ipfsPointer |-> <<>>, codeCellHash |-> 0, senderAddress |-> 0, queryId |-> 0]
    IN  IF step # StepNone THEN none
        ELSE LET p == cell.refs[1]
                 i == p.refs[1]
                 m == validateSignatureCell(cell.refs[2], CellHash(p), keypair, config)
             IN  [err |-> m.err, step |-> step, inspected |-> m.inspected, keys |-> m.keys,
                  ipfsPointer |-> IF Len(i.refs[1].bits) < 2 THEN <<>>
                                  ELSE i.refs[1].bits[2].v,
                  codeCellHash |-> i.bits[4].v[1],
                  senderAddress |-> p.bits[3].v[1],
                  queryId |-> i.bits[2].v[1]]

\* ------------------------------------------------------------ environment
\* Public keys: the configured verifiers 1..MaxQuorum and one outsider.
Members == 1..MaxQuorum
Outsider == MaxQuorum + 1
Keys == Members \cup {Outsider}

\* config.verifierId and config.sourcesRegistryAddress of every controller of
\* the suite, and the values the suite uses for a foreign id or address.
VERIFIER_ID == 1
OTHER_VERIFIER_ID == 2
SOURCES_REG == 1
NOT_SOURCES_REG == 2
ZERO_ADDRESS == 0
\* The code hash the stub compiler reports, and the one the messages of the
\* signature suite hold.
CODE_HASH == 1
OTHER_CODE_HASH == 2

RECURSIVE SeqOfRange(_, _)
SeqOfRange(a, b) == IF a > b THEN <<>> ELSE <<a>> \o SeqOfRange(a + 1, b)

\* The VerifierSetConfigs the chain reader may hold.
VerifierLists == {SeqOfRange(1, MaxQuorum), SeqOfRange(1, MaxQuorum - 1)}
Configs == [quorum : 1..MaxQuorum, verifiers : VerifierLists]

\* Results of the compiler collaborator's verify().
CompileResults ==
    {[result |-> "similar", hash |-> CODE_HASH, error |-> FALSE],
     [result |-> "similar", hash |-> 0, error |-> FALSE],
     [result |-> "similar", hash |-> CODE_HASH, error |-> TRUE],
     [result |-> "not_similar", hash |-> CODE_HASH, error |-> FALSE],
     [result |-> "compile_error", hash |-> 0, error |-> TRUE],
     [result |-> "unknown_error", hash |-> 0, error |-> TRUE]}
NoCompile == [result |-> "", hash |-> 0, error |-> FALSE]

\* getNowHourRoundedDown(), with an hour of TICKS_PER_HOUR clock ticks.
TICKS_PER_HOUR == 2
getNowHourRoundedDown(t) == t - (t % TICKS_PER_HOUR)

\* A SourceRecord (SourceItem JSON) and its content pointer: storage is
\* content addressed, the pointer is a function of the bytes stored.
SourceItem(hash, date, sources) ==
    [hash |-> hash, verificationDate |-> date, sources |-> sources, known |-> TRUE]
NoJson == [hash |-> 0, verificationDate |-> 0, sources |-> 0, known |-> FALSE]
ipfsHash(json) == <<json.hash, json.verificationDate, json.sources>>
\* The pointer the suite stores hand-made records under ("someLink").
SOME_LINK == <<0>>

\* ipfsProvider.read(pointer) followed by JSON.parse
readJson(store, pointer) ==
    IF pointer \in DOMAIN store THEN store[pointer] ELSE NoJson

\* -------------------------------------------------------------- the state
VARIABLES
    now,          \* the clock
    chainConfig,  \* the VerifierSetConfig the chain reader returns
    storage,      \* content storage: pointer -> SourceRecord
    controllers,  \* per verifier: VERIFIER_SHA256, keypair, config
    call,         \* the call in progress or last completed
    wire,         \* the message last returned, passed on to the next verifier
    waiting       \* a second call in progress, suspended at an await

vars == <<now, chainConfig, storage, controllers, call, wire, waiting>>

\* new Controller(ipfsProvider, compilers, config, tonReaderClient)
Controller(k, allowReverification) ==
    [VERIFIER_SHA256 |-> sha256(VERIFIER_ID),
     keypair |-> fromSecretKey(0 - k),
     config |-> [verifierId |-> VERIFIER_ID, privateKey |-> 0 - k,
                 sourcesRegistryAddress |-> SOURCES_REG,
                 allowReverification |-> allowReverification]]

IdleCall ==
    [op |-> "none", c |-> 1, pc |-> "idle", input |-> EmptyCell, fromWire |-> FALSE,
     cfg |-> [quorum |-> 0, verifiers |-> <<>>], fetches |-> 0, at |-> 0,
     v |-> [err |-> "", step |-> 0, inspected |-> 0, keys |-> <<>>,
            ipfsPointer |-> <<>>, codeCellHash |-> 0, senderAddress |-> 0, queryId |-> 0],
     json |-> NoJson, compile |-> NoCompile, compiles |-> 0, reads |-> 0, writes |-> 0,
     queries |-> 0, isDeployed |-> FALSE, signed |-> FALSE, ret |-> "", err |-> "",
     result |-> NoCompile, sig |-> <<>>, ipfsLink |-> <<>>, out |-> EmptyCell]

NoWire == [some |-> FALSE, cell |-> EmptyCell, origin |-> <<>>]

TypeOK ==
    /\ now \in 0..MaxTime
    /\ chainConfig \in Configs
    /\ call.pc \in {"idle", "config", "read", "sources", "compile", "deployed",
                    "upload", "uploadSpec", "done"}
    /\ wire.some \in BOOLEAN

\* ------------------------------------------------------- Controller.sign
\* Mutant: the signature is made over the root, not over the payload.
signAndAppend_SignsRoot(cell, keypair) ==
    LET sigCell == signatureCell(cell, keypair).sigCell
        updateSigCell == addSignatureCell(cell.refs[2], sigCell)
    IN  IF updateSigCell.err # ""
        THEN [err |-> updateSigCell.err, cell |-> EmptyCell]
        ELSE [err |-> "", cell |-> MkCell(cell.bits, <<cell.refs[1], updateSigCell.cell>>)]

\* Mutant: the two references are stored in the other order.
signAndAppend_RefsSwapped(cell, keypair) ==
    LET msgToSign == cell.refs[1]
        sigCell == signatureCell(msgToSign, keypair).sigCell
        updateSigCell == addSignatureCell(cell.refs[2], sigCell)
    IN  IF updateSigCell.err # ""
        THEN [err |-> updateSigCell.err, cell |-> EmptyCell]
        ELSE [err |-> "", cell |-> MkCell(cell.bits, <<updateSigCell.cell, msgToSign>>)]

\* Mutant: the key pair is kept outside the controller, where the other
\* call in flight has put its own.
signAndAppend_SharedKeypair(cell, keypair) ==
    LET msgToSign == cell.refs[1]
        shared == IF waiting.op = "none" THEN keypair ELSE KeyPairOf(waiting.c)
        sigCell == signatureCell(msgToSign, shared).sigCell
        updateSigCell == addSignatureCell(cell.refs[2], sigCell)
        rest == MkCell(cell.bits, SubSeq(cell.refs, 3, Len(cell.refs)))
    IN  IF updateSigCell.err # ""
        THEN [err |-> updateSigCell.err, cell |-> EmptyCell]
        ELSE [err |-> "", cell |-> storeRef(storeRef(rest, msgToSign), updateSigCell.cell)]

\* The tail of sign (after the recompilation): sign the first reference,
\* append to the chain under the second, and rebuild the root from what is
\* left of the slice, followed by the two references.
signAndAppend(cell, keypair) ==
    LET msgToSign == cell.refs[1]
        sigCell == signatureCell(msgToSign, keypair).sigCell
        updateSigCell == addSignatureCell(cell.refs[2], sigCell)
        rest == MkCell(cell.bits, SubSeq(cell.refs, 3, Len(cell.refs)))
    IN  IF updateSigCell.err # ""
        THEN [err |-> updateSigCell.err, cell |-> EmptyCell]
        ELSE [err |-> "", cell |-> storeRef(storeRef(rest, msgToSign), updateSigCell.cell)]

\* Mutant: the validator is given a config kept from construction time, not
\* the one just fetched.
signValidate_StaleConfig(ctl, cell, config, t) ==
    validateMessageCell(cell, ctl.VERIFIER_SHA256, ctl.config.sourcesRegistryAddress,
                        ctl.keypair,
                        [quorum |-> MaxQuorum, verifiers |-> config.verifiers], t)

\* Mutant: the validator is given the key pair of the first configured
\* verifier, not the controller's own.
signValidate_OtherKeypair(ctl, cell, config, t) ==
    validateMessageCell(cell, ctl.VERIFIER_SHA256, ctl.config.sourcesRegistryAddress,
                        KeyPairOf(config.verifiers[1]), config, t)

\* The validation sign makes of its input once the config is fetched.
signValidate(ctl, cell, config, t) ==
    validateMessageCell(cell, ctl.VERIFIER_SHA256, ctl.config.sourcesRegistryAddress,
                        ctl.keypair, config, t)

\* Mutant: the record is parsed, its hash not compared.
signJsonError_NoCompare(json, codeCellHash) ==
    IF ~json.known THEN "SyntaxError" ELSE ""

\* The comparison sign makes of the stored record with the validated hash.
signJsonError(json, codeCellHash) ==
    IF ~json.known THEN "SyntaxError"
    ELSE IF json.hash # codeCellHash THEN "CodeHashMismatch"
    ELSE ""

\* Mutant: a recompilation that is not similar is reported as a hash
\* mismatch.
signCompileError_AsHashMismatch(res) ==
    IF res.result # "similar" THEN "CodeHashMismatch" ELSE ""

\* Mutant: only a recompilation that is not_similar is turned down.
signCompileError_OnlyNotSimilar(res) ==
    IF res.result = "not_similar" THEN "InvalidCompilationResult" ELSE ""

\* The test sign makes of the recompilation.
signCompileError(res) ==
    IF res.result # "similar" THEN "InvalidCompilationResult" ELSE ""

Busy == call.pc \notin {"idle", "done"}

\* sign({messageCell, tmpDir}) is called on controller c: the cell is
\* decoded and getVerifierConfig is awaited.
SignStart(c, m, fromWire) ==
    /\ ~Busy
    /\ call' = [IdleCall EXCEPT !.op = "sign", !.c = c, !.pc = "config",
                                !.input = m, !.fromWire = fromWire]
    /\ UNCHANGED <<now, chainConfig, storage, controllers, wire, waiting>>

\* getVerifierConfig resolves; validateMessageCell runs; on success the
\* read of the SourceRecord is awaited.
SignConfig ==
    /\ call.op = "sign" /\ call.pc = "config"
    /\ LET v == signValidate(controllers[call.c], call.input, chainConfig, now)
           c1 == [call EXCEPT !.cfg = chainConfig, !.fetches = @ + 1, !.at = now, !.v = v]
       IN  call' = IF v.err # ""
                   THEN [c1 EXCEPT !.pc = "done", !.ret = "throw", !.err = v.err]
                   ELSE [c1 EXCEPT !.pc = "read"]
    /\ UNCHANGED <<now, chainConfig, storage, controllers, wire, waiting>>

\* ipfsProvider.read(ipfsPointer) resolves; the hash comparison; on success
\* the reads of the source files are awaited.
SignRead ==
    /\ call.op = "sign" /\ call.pc = "read"
    /\ LET json == readJson(storage, call.v.ipfsPointer)
           e == signJsonError(json, call.v.codeCellHash)
           c1 == [call EXCEPT !.json = json, !.reads = @ + 1]
       IN  call' = IF e # ""
                   THEN [c1 EXCEPT !.pc = "done", !.ret = "throw", !.err = e]
                   ELSE [c1 EXCEPT !.pc = "sources"]
    /\ UNCHANGED <<now, chainConfig, storage, controllers, wire, waiting>>

\* The source files are read and written to tmpDir; compiler.verify is
\* awaited.
SignSources ==
    /\ call.op = "sign" /\ call.pc = "sources"
    /\ call' = [call EXCEPT !.pc = "compile", !.reads = @ + call.json.sources]
    /\ UNCHANGED <<now, chainConfig, storage, controllers, wire, waiting>>

\* compiler.verify resolves with res; on "similar" the message is signed,
\* the signature appended and the new message returned.
SignCompiled(res) ==
    /\ call.op = "sign" /\ call.pc = "compile"
    /\ LET e == signCompileError(res)
           c1 == [call EXCEPT !.compile = res, !.compiles = @ + 1]
           r == signAndAppend(call.input, controllers[call.c].keypair)
       IN  IF e # ""
           THEN /\ call' = [c1 EXCEPT !.pc = "done", !.ret = "throw", !.err = e]
                /\ UNCHANGED wire
           ELSE IF r.err # ""
           THEN /\ call' = [c1 EXCEPT !.pc = "done", !.ret = "throw", !.err = r.err,
                                      !.signed = TRUE]
                /\ UNCHANGED wire
           ELSE /\ call' = [c1 EXCEPT !.pc = "done", !.ret = "message", !.out = r.cell,
                                      !.signed = TRUE]
                /\ wire' = IF call.fromWire THEN [wire EXCEPT !.cell = r.cell] ELSE wire
    /\ UNCHANGED <<now, chainConfig, storage, controllers, waiting>>

\* --------------------------------------------------- Controller.addSource
\* Query ids random64BitNumber() may draw.
QueryIds == {7}
\* Number of source files of a verification payload.
NUM_SOURCES == 1

\* Mutant: only the result kind is tested, not the error nor the hash.
addSourceCompileFailed_ResultOnly(res) ==
    res.result # "similar"

\* The test addSource makes of the compilation.
addSourceCompileFailed(res) ==
    res.error \/ res.result # "similar" \/ res.hash = 0

\* The message addSource builds and signs once the uploads are done.
addSourceMessage(ctl, sender, queryId, hash, ipfsLink, t) ==
    LET msgToSign == cellToSign(sender, queryId, hash, ipfsLink,
                                ctl.config.sourcesRegistryAddress, ctl.VERIFIER_SHA256, t)
        sc == signatureCell(msgToSign, ctl.keypair)
    IN  verifierRegistryForwardMessage(queryId, msgToSign, sc.sigCell)

\* addSource(verificationPayload) is called on controller c: compiler.verify
\* is awaited.
AddSourceStart(c) ==
    /\ ~Busy
    /\ call' = [IdleCall EXCEPT !.op = "addSource", !.c = c, !.pc = "compile"]
    /\ UNCHANGED <<now, chainConfig, storage, controllers, wire, waiting>>

\* Mutant: isProofDeployed is awaited whether reverification is allowed or
\* not.
AddSourceCompiled_AlwaysQueries(res) ==
    /\ call.op = "addSource" /\ call.pc = "compile"
    /\ LET c1 == [call EXCEPT !.compile = res, !.compiles = @ + 1] IN
       call' = IF addSourceCompileFailed(res)
               THEN [c1 EXCEPT !.pc = "done", !.ret = "compileResult", !.result = res]
               ELSE [c1 EXCEPT !.pc = "deployed"]
    /\ UNCHANGED <<now, chainConfig, storage, controllers, wire, waiting>>

\* compiler.verify resolves with res: the result is returned as it is
\* unless it is a hash match; then isProofDeployed is awaited, or the upload
\* when reverification is allowed.
AddSourceCompiled(res) ==
    /\ call.op = "addSource" /\ call.pc = "compile"
    /\ LET c1 == [call EXCEPT !.compile = res, !.compiles = @ + 1] IN
       call' = IF addSourceCompileFailed(res)
               THEN [c1 EXCEPT !.pc = "done", !.ret = "compileResult", !.result = res]
               ELSE IF ~controllers[call.c].config.allowReverification
               THEN [c1 EXCEPT !.pc = "deployed"]
               ELSE [c1 EXCEPT !.pc = "upload"]
    /\ UNCHANGED <<now, chainConfig, storage, controllers, wire, waiting>>

\* isProofDeployed resolves with isDeployed.
AddSourceDeployed(isDeployed) ==
    /\ call.op = "addSource" /\ call.pc = "deployed"
    /\ LET c1 == [call EXCEPT !.queries = @ + 1, !.isDeployed = isDeployed] IN
       call' = IF isDeployed
               THEN [c1 EXCEPT !.pc = "done", !.ret = "compileResult",
                               !.err = "AlreadyDeployed",
                               !.result = [result |-> "unknown_error", hash |-> 0,
                                           error |-> TRUE]]
               ELSE [c1 EXCEPT !.pc = "upload"]
    /\ UNCHANGED <<now, chainConfig, storage, controllers, wire, waiting>>

\* ipfsProvider.write(sourcesToUpload) resolves; the SourceRecord is built
\* and its upload awaited.
AddSourceUpload ==
    /\ call.op = "addSource" /\ call.pc = "upload"
    /\ call' = [call EXCEPT !.pc = "uploadSpec", !.writes = @ + 1,
                            !.json = SourceItem(call.compile.hash,
                                                getNowHourRoundedDown(now), NUM_SOURCES)]
    /\ UNCHANGED <<now, chainConfig, storage, controllers, wire, waiting>>

\* ipfsProvider.writeFromContent resolves with the pointer; the message is
\* built with a fresh query id, signed and returned.
AddSourceSpecUploaded(queryId) ==
    /\ call.op = "addSource" /\ call.pc = "uploadSpec"
    /\ LET ipfsLink == ipfsHash(call.json)
           ctl == controllers[call.c]
           msg == addSourceMessage(ctl, ZERO_ADDRESS, queryId, call.compile.hash,
                                   ipfsLink, now)
       IN  /\ storage' = [p \in DOMAIN storage \cup {ipfsLink} |->
                             IF p = ipfsLink THEN call.json ELSE storage[p]]
           /\ call' = [call EXCEPT !.pc = "done", !.ret = "message", !.writes = @ + 1,
                                   !.signed = TRUE, !.result = call.compile,
                                   !.sig = msg.refs[2].bits[1].v,
                                   !.ipfsLink = ipfsLink, !.out = msg]
           /\ wire' = [some |-> TRUE, cell |-> msg, origin |-> CellHash(msg.refs[1])]
    /\ UNCHANGED <<now, chainConfig, controllers, waiting>>

\* ------------------------------------------------------------ environment
\* Time passes.
Tick ==
    /\ now < MaxTime
    /\ now' = now + 1
    /\ UNCHANGED <<chainConfig, storage, controllers, call, wire, waiting>>

\* The verifier set is reconfigured on chain.  Only SignConfig reads the
\* config, once per call: a change at any other moment is the same as that
\* change made while the next call awaits its read.
ChangeConfig(cfg) ==
    /\ cfg # chainConfig
    /\ call.pc \in {"idle", "config"}
    /\ chainConfig' = cfg
    /\ UNCHANGED <<now, storage, controllers, call, wire, waiting>>

\* ---------------------------------------------------- the specifications
InitControllers == [k \in Keys |-> Controller(k, k % 2 = 0)]
EmptyStorage == [p \in {} |-> NoJson]

\* The verifiers run propose and cosign on the message they pass on.
Init ==
    /\ now = 0
    /\ chainConfig \in Configs
    /\ storage = EmptyStorage
    /\ controllers = InitControllers
    /\ call = IdleCall
    /\ wire = NoWire
    /\ waiting = IdleCall

CallStep ==
    \/ SignConfig
    \/ SignRead
    \/ SignSources
    \/ \E res \in CompileResults : SignCompiled(res)

Next ==
    \/ \E c \in Keys : AddSourceStart(c)
    \/ \E res \in CompileResults : AddSourceCompiled(res)
    \/ \E d \in BOOLEAN : AddSourceDeployed(d)
    \/ AddSourceUpload
    \/ \E q \in QueryIds : AddSourceSpecUploaded(q)
    \/ \E c \in Keys : wire.some /\ SignStart(c, wire.cell, TRUE)
    \/ CallStep
    \/ Tick
    \/ \E cfg \in Configs : ChangeConfig(cfg)

Spec == Init /\ [][Next]_vars

\* ------------------------------------------------ hand-made input messages
\* The SignedPayload of the suite's hand-made messages (describe("Invalid
\* signatures")): valid for a controller of the suite until expiresAt.
suitePayload(expiresAt) ==
    signedPayload(sha256(VERIFIER_ID), expiresAt, ZERO_ADDRESS, SOURCES_REG,
                  deploySource(0, CODE_HASH, SOME_LINK, sha256(VERIFIER_ID)))

\* makeSigCell(cellToSign, kp)
makeSigCell(signedCell, k) ==
    sigNode(signDetached(CellHash(signedCell), KeyPairOf(k).secretKey), k)

\* The kinds of chain node an input may carry.
NodeKinds ==
    {[kind |-> "valid", pk |-> k] : k \in Keys}
    \cup {[kind |-> "wrongHash", pk |-> 1], [kind |-> "wrongSigner", pk |-> Outsider],
          [kind |-> "empty", pk |-> 0], [kind |-> "short", pk |-> 0],
          [kind |-> "extraRef", pk |-> 2]}

\* The node of kind nk over payload p, without child.
nodeOfKind(nk, p) ==
    CASE nk.kind = "wrongHash" -> makeSigCell(EmptyCell, nk.pk)
      [] nk.kind = "wrongSigner" ->
             sigNode(signDetached(CellHash(p), KeyPairOf(1).secretKey), nk.pk)
      [] nk.kind = "empty" -> EmptyCell
      [] nk.kind = "short" -> MkCell(<<Field(1, <<0>>)>>, <<>>)
      [] OTHER -> makeSigCell(p, nk.pk)

\* The chain of the kinds in `kinds`, head first, each node holding the next
\* as its reference; an "extraRef" node holds a second reference as well.
RECURSIVE chainOfKinds(_, _)
chainOfKinds(kinds, p) ==
    LET node == nodeOfKind(Head(kinds), p)
        next == IF Len(kinds) = 1 THEN <<>> ELSE <<chainOfKinds(Tail(kinds), p)>>
        extra == IF Head(kinds).kind = "extraRef" THEN <<makeSigCell(p, 3)>> ELSE <<>>
        pad == IF Head(kinds).kind = "extraRef" /\ next = <<>>
               THEN <<makeSigCell(p, 3)>> ELSE <<>>
    IN  MkCell(node.bits, next \o pad \o extra)

RECURSIVE SeqsUpTo(_, _)
SeqsUpTo(S, n) ==
    IF n = 0 THEN {<<>>}
    ELSE LET shorter == SeqsUpTo(S, n - 1)
         IN  shorter \cup {Append(q, x) : q \in shorter, x \in S}

\* Chains of 1..MaxQuorum nodes.
ChainSpecs == SeqsUpTo(NodeKinds, MaxQuorum) \ {<<>>}

\* validWrappingCell(signCell)
validWrappingCell(p, signCell) == verifierRegistryForwardMessage(0, p, signCell)

\* The suite's storage for these messages: a record under SOME_LINK.
SuiteStorage(hash) ==
    [p \in {SOME_LINK} |-> SourceItem(hash, 0, 0)]

\* One cosign call, awaiting the config, on message m by controller c.
CallOn(c, m) ==
    [IdleCall EXCEPT !.op = "sign", !.c = c, !.pc = "config", !.input = m]

\* One cosign of a hand-made chain over a valid envelope.
InitChain ==
    /\ now = 0
    /\ chainConfig \in [quorum : 1..MaxQuorum, verifiers : {SeqOfRange(1, MaxQuorum)}]
    /\ storage = SuiteStorage(CODE_HASH)
    /\ controllers = InitControllers
    /\ wire = NoWire
    /\ waiting = IdleCall
    /\ \E c \in Keys, ks \in ChainSpecs :
          call = CallOn(c, validWrappingCell(suitePayload(MaxTime + 1),
                                             chainOfKinds(ks, suitePayload(MaxTime + 1))))

SpecChain == InitChain /\ [][CallStep]_vars

\* What the storage may hold under the message's pointer: the record of
\* the message's code hash, a record of another hash, nothing.
RecordStores == {SuiteStorage(CODE_HASH), SuiteStorage(OTHER_CODE_HASH), EmptyStorage}

\* Chains of one or two nodes.
RecordChains == SeqsUpTo(NodeKinds, 2) \ {<<>>}

\* One cosign of a hand-made chain over a valid envelope, the storage
\* holding any of RecordStores.
InitRecord ==
    /\ now = 0
    /\ chainConfig \in [quorum : 1..MaxQuorum, verifiers : {SeqOfRange(1, MaxQuorum)}]
    /\ storage \in RecordStores
    /\ controllers = InitControllers
    /\ wire = NoWire
    /\ waiting = IdleCall
    /\ \E c \in Keys, ks \in RecordChains :
          call = CallOn(c, validWrappingCell(suitePayload(MaxTime + 1),
                                             chainOfKinds(ks, suitePayload(MaxTime + 1))))

SpecRecord == InitRecord /\ [][CallStep]_vars

\* ------------------------------------------------- reading a chain back
\* The nodes of a chain, head first, following each node's first reference.
RECURSIVE ChainNodes(_)
ChainNodes(node) ==
    <<node>> \o (IF Len(node.refs) >= 1 THEN ChainNodes(node.refs[1]) ELSE <<>>)

\* A node laid out as signature then key, and what it holds.
IsSigNode(n) == Len(n.bits) = 2 /\ n.bits[1].w = SIG_BITS /\ n.bits[2].w = KEY_BITS
NodeSig(n) == n.bits[1].v
NodeKey(n) == n.bits[2].v[1]

\* Every node of the chain is a well-formed SignatureNode with at most one
\* reference.
WellFormedChain(nodes) ==
    \A i \in 1..Len(nodes) : IsSigNode(nodes[i]) /\ Len(nodes[i].refs) <= 1

AllVerify(nodes, msgHash) ==
    \A i \in 1..Len(nodes) : NodeSig(nodes[i]) = <<NodeKey(nodes[i])>> \o msgHash

AllConfigured(nodes, config) ==
    \A i \in 1..Len(nodes) : \E j \in 1..Len(config.verifiers) :
        config.verifiers[j] = NodeKey(nodes[i])

NoKeyTwice(nodes) ==
    \A i, j \in 1..Len(nodes) : i # j => NodeKey(nodes[i]) # NodeKey(nodes[j])

\* (a)-(d) of a signature chain under `head`, for the payload p and config.
SoundChain(head, p, config) ==
    LET nodes == ChainNodes(head) IN
    /\ WellFormedChain(nodes)
    /\ AllVerify(nodes, CellHash(p))
    /\ AllConfigured(nodes, config)
    /\ NoKeyTwice(nodes)
    /\ Len(nodes) <= config.quorum

SignDone == call.op = "sign" /\ call.pc = "done"
SignOk == SignDone /\ call.ret = "message"

\* C1: every message a successful cosign returns carries a chain whose
\* signatures all verify against the hash of the payload under the node's
\* key, whose keys are all in the config fetched by that call, with no key
\* twice and at most quorum nodes; and the chain of the input of a
\* successful cosign has these properties too.
C1_SoundChains ==
    SignOk =>
        /\ SoundChain(call.out.refs[2], call.out.refs[1], call.cfg)
        /\ SoundChain(call.input.refs[2], call.input.refs[1], call.cfg)

\* A cosign that returns a chain of MaxQuorum signatures.
C1_Witness ==
    SignOk /\ Len(ChainNodes(call.out.refs[2])) = MaxQuorum

\* What the claims read of a cosign call.
InNodes == ChainNodes(call.input.refs[2])
OutNodes == ChainNodes(call.out.refs[2])
KeysOf(nodes) == [i \in 1..Len(nodes) |-> NodeKey(nodes[i])]
OwnKey == controllers[call.c].keypair.publicKey
InExpiresAt == call.input.refs[1].bits[2].v[1]
\* The input chain is sound for the call's config but for its length.
InChainValid ==
    /\ WellFormedChain(InNodes)
    /\ AllVerify(InNodes, CellHash(call.input.refs[1]))
    /\ AllConfigured(InNodes, call.cfg)
    /\ NoKeyTwice(InNodes)

\* What a message violates, check by check; a check that reads a field is
\* violated only by a message that has the field.
InRoot == call.input
HasPayload == Len(InRoot.refs) >= 1
InPayload == InRoot.refs[1]
HasInner == HasPayload /\ Len(InPayload.refs) >= 1
InInner == InPayload.refs[1]
FieldIsNot(cell, i, v) == Len(cell.bits) >= i /\ cell.bits[i].v # v

Violates(step) ==
    CASE step = StepRoot ->
             Len(InRoot.refs) < 2 \/ SumWidths(InRoot.bits) < OP_BITS + QUERY_BITS
      [] step = StepOperation -> FieldIsNot(InRoot, 1, <<FORWARD_MESSAGE_OP>>)
      [] step = StepVerifierBody ->
             HasPayload /\ (Len(InPayload.refs) < 1 \/ Len(InPayload.bits) < 4)
      [] step = StepVerifierIdOuter ->
             HasPayload /\ FieldIsNot(InPayload, 1, sha256(VERIFIER_ID))
      [] step = StepExpired ->
             HasPayload /\ Len(InPayload.bits) >= 2 /\ InPayload.bits[2].v[1] <= call.at
      [] step = StepRegistryAddress ->
             HasPayload /\ FieldIsNot(InPayload, 4, <<SOURCES_REG>>)
      [] step = StepRegistryBody ->
             HasInner /\ (Len(InInner.refs) < 1 \/ Len(InInner.bits) < 4)
      [] step = StepDeploySourceOp ->
             HasInner /\ FieldIsNot(InInner, 1, <<DEPLOY_SOURCE_OP>>)
      [] step = StepVerifierIdInner ->
             HasInner /\ FieldIsNot(InInner, 3, sha256(VERIFIER_ID))
      [] OTHER -> FALSE

Violated == {k \in StepRoot..StepVerifierIdInner : Violates(k)}

\* The config of the scenario: quorum 3, verifiers A, B, C.
Q3 == [quorum |-> 3, verifiers |-> <<1, 2, 3>>]

ProposeOk == call.op = "addSource" /\ call.pc = "done" /\ call.ret = "message"

\* The first three steps of the scenario: the chain after A's propose, B's
\* cosign and C's cosign.
ScenarioChains ==
    /\ ProposeOk /\ call.c = 1 =>
          LET nodes == ChainNodes(call.out.refs[2]) IN
          /\ Len(nodes) = 1 /\ IsSigNode(nodes[1])
          /\ NodeKey(nodes[1]) = 1
          /\ AllVerify(nodes, CellHash(call.out.refs[1]))
    /\ SignDone /\ call.cfg = Q3 /\ call.c = 2 /\ KeysOf(InNodes) = <<1>>
                /\ InExpiresAt > call.at =>
          /\ call.err \in {"", "InvalidCompilationResult"}
          /\ SignOk => KeysOf(OutNodes) = <<1, 2>>
    /\ SignDone /\ call.cfg = Q3 /\ call.c = 3 /\ KeysOf(InNodes) = <<1, 2>>
                /\ InExpiresAt > call.at =>
          /\ call.err \in {"", "InvalidCompilationResult"}
          /\ SignOk => KeysOf(OutNodes) = <<1, 2, 3>>

\* C2: with quorum 3 and verifiers A, B, C, propose by A gives the chain
\* (A), cosign by B the chain (A,B), cosign by C the chain (A,B,C), and every
\* further cosign of the three-signature message fails with
\* TooManySignatures, whoever makes it.  The steps of the scenario are those
\* taken while the message is valid; a cosign made after its expiry fails
\* with MessageExpired, whatever its chain.
C2_Scenario ==
    /\ ScenarioChains
    /\ SignDone /\ call.cfg = Q3 /\ KeysOf(InNodes) = <<1, 2, 3>> =>
          /\ call.ret = "throw"
          /\ call.err = IF InExpiresAt > call.at THEN "TooManySignatures"
                        ELSE "MessageExpired"

\* The outsider's cosign of the unexpired message signed by A, B and C has
\* failed.
C2_Witness ==
    /\ SignDone /\ call.cfg = Q3 /\ KeysOf(InNodes) = <<1, 2, 3>>
    /\ call.c = Outsider /\ call.err = "TooManySignatures"

\* C3: a successful cosign returns the payload it was given: the hash of
\* the first reference of the returned root is that of the input root, and
\* along the messages passed on it stays the hash of the proposer's payload.
C3_PayloadUntouched ==
    /\ SignOk =>
          /\ CellHash(call.out.refs[1]) = CellHash(call.input.refs[1])
          /\ call.fromWire => CellHash(call.out.refs[1]) = wire.origin
    /\ wire.some => CellHash(wire.cell.refs[1]) = wire.origin

\* The second successive cosign of a proposed message has succeeded.
C3_Witness ==
    SignOk /\ call.fromWire /\ Len(OutNodes) = 3

\* C4: a successful cosign of a chain of k nodes returns k+1 nodes: the
\* first k with the bits of the input's, in order, and a last one without
\* reference, holding the running verifier's key and its valid signature of
\* the payload hash.
C4_AppendAtTail ==
    SignOk =>
        LET k == Len(InNodes)
            last == OutNodes[Len(OutNodes)]
        IN  /\ Len(OutNodes) = k + 1
            /\ \A i \in 1..k : OutNodes[i].bits = InNodes[i].bits
            /\ last.refs = <<>>
            /\ IsSigNode(last)
            /\ NodeKey(last) = OwnKey
            /\ NodeSig(last) = <<OwnKey>> \o CellHash(call.out.refs[1])

\* A successful cosign of a chain of two nodes.
C4_Witness ==
    SignOk /\ Len(InNodes) = 2 /\ Len(OutNodes) = 3

\* The Multisig Validator's walk of the chain a cosign returned, under the
\* config of that call.
OutWalk == walkChain(call.out.refs[2], <<>>, CellHash(call.out.refs[1]), call.cfg)

\* C5 as stated: the chain a cosign returns for a valid chain of k < quorum
\* nodes is accepted by the Multisig Validator as a chain of k+1 nodes, also
\* when k+1 = quorum, every earlier signature still valid.
C5_Original ==
    SignOk =>
        /\ OutWalk.err = ""
        /\ Len(OutWalk.keys) = Len(InNodes) + 1
        /\ AllVerify(OutNodes, CellHash(call.out.refs[1]))

\* C5 amended: it is accepted as a chain of k+1 nodes when k+1 < quorum;
\* when k+1 = quorum every signature of it is still valid, and the validator
\* turns the complete chain down with TooManySignatures at its last node.
C5_QuorumMonotonicity ==
    SignOk =>
        LET k == Len(InNodes) IN
        /\ AllVerify(OutNodes, CellHash(call.out.refs[1]))
        /\ k + 1 <= call.cfg.quorum
        /\ IF k + 1 < call.cfg.quorum
           THEN OutWalk.err = "" /\ Len(OutWalk.keys) = k + 1
           ELSE OutWalk.err = "TooManySignatures" /\ OutWalk.inspected = k + 1

\* A cosign has appended to a chain of one node under a quorum of three.
C5_Witness ==
    SignOk /\ Len(InNodes) = 1 /\ call.cfg.quorum = 3 /\ OutWalk.err = ""

\* C6 as stated: the cosign of a message whose chain holds quorum valid,
\* distinct signatures of configured verifiers fails with
\* TooManySignatures, and no cosign returns more than quorum signatures.
C6_Original ==
    /\ SignDone /\ InChainValid /\ Len(InNodes) = call.cfg.quorum =>
          call.ret = "throw" /\ call.err = "TooManySignatures"
    /\ SignOk => Len(OutNodes) <= call.cfg.quorum

\* C6 amended: so it is, the envelope passing, for a quorum above 1; under
\* a quorum of 1 or less the cosign fails with QuorumTooSmall.
C6_Terminal ==
    /\ SignDone /\ Violated = {} /\ InChainValid /\ Len(InNodes) = call.cfg.quorum =>
          /\ call.ret = "throw"
          /\ call.err = IF call.cfg.quorum > 1 THEN "TooManySignatures"
                        ELSE "QuorumTooSmall"
    /\ SignOk => Len(OutNodes) <= call.cfg.quorum

\* The cosign of a complete chain of MaxQuorum signatures has failed.
C6_Witness ==
    /\ SignDone /\ InChainValid /\ Len(InNodes) = call.cfg.quorum
    /\ call.cfg.quorum = MaxQuorum /\ call.err = "TooManySignatures"

\* C7: under a fetched config of quorum 1 or less the validation of the
\* chain fails with QuorumTooSmall whatever the chain holds, and no node of
\* the chain has been inspected.
C7_QuorumTooSmall ==
    SignDone /\ call.cfg.quorum <= 1 =>
        /\ call.ret = "throw"
        /\ call.err = "QuorumTooSmall"
        /\ call.v.inspected = 0

\* Under a quorum of 1 a chain of two nodes that is not well formed has
\* been turned down.
C7_Witness ==
    /\ SignDone /\ call.cfg.quorum <= 1
    /\ Len(InNodes) = 2 /\ ~WellFormedChain(InNodes)
    /\ call.err = "QuorumTooSmall"

\* Some key stands at two positions of the input chain.
KeyTwiceAt(i, j) ==
    /\ i < j /\ j <= Len(InNodes)
    /\ IsSigNode(InNodes[i]) /\ IsSigNode(InNodes[j])
    /\ NodeKey(InNodes[i]) = NodeKey(InNodes[j])

\* The first j nodes of the input chain pass the checks made on a node
\* before the duplicate check, and the first j-1 hold distinct keys.
PrefixValid(j) ==
    LET pre == SubSeq(InNodes, 1, j) IN
    /\ WellFormedChain(pre)
    /\ AllVerify(pre, CellHash(call.input.refs[1]))
    /\ AllConfigured(pre, call.cfg)
    /\ NoKeyTwice(SubSeq(InNodes, 1, j - 1))

\* C8 as stated: the validation of a chain in which a key stands at two
\* positions always fails with DuplicateSignature.
C8_Original ==
    /\ SignDone
    /\ \E j \in 1..Len(InNodes) : \E i \in 1..j : KeyTwiceAt(i, j)
    => call.ret = "throw" /\ call.err = "DuplicateSignature"

\* C8 amended: it fails with DuplicateSignature when the envelope passes,
\* quorum > 1, the repeat stands at a position j <= quorum, and the nodes up
\* to j are well formed and validly signed by configured verifiers, no key
\* repeated before j.
C8_Duplicate ==
    SignDone /\ call.cfg.quorum > 1 /\ Violated = {} =>
        \A j \in 1..Len(InNodes) :
            /\ j <= call.cfg.quorum
            /\ PrefixValid(j)
            /\ \E i \in 1..j : KeyTwiceAt(i, j)
            => call.ret = "throw" /\ call.err = "DuplicateSignature"

\* A chain of three nodes whose first key comes again at the third has been
\* turned down as a duplicate.
C8_Witness ==
    /\ SignDone /\ Len(InNodes) = 3 /\ KeyTwiceAt(1, 3) /\ ~KeyTwiceAt(1, 2)
    /\ call.err = "DuplicateSignature"

\* The running verifier's key is in the input chain.
OwnKeyIn(nodes) ==
    \E i \in 1..Len(nodes) : IsSigNode(nodes[i]) /\ NodeKey(nodes[i]) = OwnKey

\* Once and no more in the chain returned.
OwnKeyOnce ==
    SignOk => Cardinality({i \in 1..Len(OutNodes) : NodeKey(OutNodes[i]) = OwnKey}) = 1

\* C9 as stated: the cosign of a message whose chain holds the running
\* verifier's own key, at any position, fails with AlreadySignedBySelf and
\* returns no message; no key comes twice through its owner's cosign.
C9_Original ==
    /\ SignDone /\ OwnKeyIn(InNodes) =>
          call.ret = "throw" /\ call.err = "AlreadySignedBySelf"
    /\ OwnKeyOnce

\* C9 amended: so it is when the envelope passes and the chain passes the
\* Multisig Validator, that is quorum > 1 and the chain is valid and shorter
\* than quorum; in no case is a message returned.
C9_SelfSign ==
    /\ SignDone /\ OwnKeyIn(InNodes) =>
          /\ call.ret = "throw"
          /\ Violated = {} /\ call.cfg.quorum > 1
               /\ InChainValid /\ Len(InNodes) < call.cfg.quorum =>
                call.err = "AlreadySignedBySelf"
    /\ OwnKeyOnce

\* The verifier's own key was the second of two nodes, under a quorum of
\* three, and its cosign has failed with AlreadySignedBySelf.
C9_Witness ==
    /\ SignDone /\ Len(InNodes) = 2 /\ IsSigNode(InNodes[2])
    /\ NodeKey(InNodes[2]) = OwnKey
    /\ call.err = "AlreadySignedBySelf"

\* ---------------------------------------------- hand-made envelope faults
\* The operation code the suite uses for a wrong one.
WRONG_OP == 1

\* The DeploySourcePayload of shape `kind`.
faultyInner(kind, op, id) ==
    LET full == deploySource(0, CODE_HASH, SOME_LINK, sha256(id)) IN
    CASE kind = "empty" -> EmptyCell
      [] kind = "missingRef" -> MkCell([full.bits EXCEPT ![1] = Field(OP_BITS, <<op>>)], <<>>)
      [] OTHER -> MkCell([full.bits EXCEPT ![1] = Field(OP_BITS, <<op>>)], full.refs)

\* The SignedPayload of shape `kind`.
faultyPayload(kind, id, expiresAt, registry, inner) ==
    LET full == signedPayload(sha256(id), expiresAt, ZERO_ADDRESS, registry, inner) IN
    CASE kind = "empty" -> EmptyCell
      [] kind = "missingRef" -> MkCell(full.bits, <<>>)
      [] kind = "missingAddresses" -> MkCell(SubSeq(full.bits, 1, 2), full.refs)
      [] OTHER -> full

\* The root of shape `kind` over payload p, its chain one valid signature
\* of verifier 2.
faultyRoot(kind, op, p) ==
    LET full == verifierRegistryForwardMessage(0, p, makeSigCell(p, 2)) IN
    CASE kind = "empty" -> EmptyCell
      [] kind = "noRefs" -> MkCell([full.bits EXCEPT ![1] = Field(OP_BITS, <<op>>)], <<>>)
      [] kind = "noQueryId" -> MkCell(<<Field(OP_BITS, <<op>>)>>, full.refs)
      [] OTHER -> MkCell([full.bits EXCEPT ![1] = Field(OP_BITS, <<op>>)], full.refs)

EnvelopeMessages ==
    {faultyRoot(rk, rop,
                faultyPayload(pk, pid, exp, reg, faultyInner(ik, iop, iid))) :
        rk \in {"ok", "noQueryId", "noRefs", "empty"},
        rop \in {FORWARD_MESSAGE_OP, WRONG_OP},
        pk \in {"ok", "missingRef", "missingAddresses", "empty"},
        pid \in {VERIFIER_ID, OTHER_VERIFIER_ID},
        exp \in 0..(MaxTime + 1),
        reg \in {SOURCES_REG, NOT_SOURCES_REG},
        ik \in {"ok", "missingRef", "empty"},
        iop \in {DEPLOY_SOURCE_OP, WRONG_OP},
        iid \in {VERIFIER_ID, OTHER_VERIFIER_ID}}

\* One cosign, by verifier 1, of a hand-made envelope at some time.
InitEnvelope ==
    /\ now \in 0..MaxTime
    /\ chainConfig = [quorum |-> MaxQuorum, verifiers |-> SeqOfRange(1, MaxQuorum)]
    /\ storage = SuiteStorage(CODE_HASH)
    /\ controllers = InitControllers
    /\ wire = NoWire
    /\ waiting = IdleCall
    /\ \E m \in EnvelopeMessages : call = CallOn(1, m)

SpecEnvelope == InitEnvelope /\ [][CallStep]_vars

Earliest(S) == CHOOSE k \in S : \A m \in S : k <= m

\* The failure kinds of the cascade, in its order.
CascadeErrors ==
    <<"InvalidCell", "InvalidOperation", "InvalidVerifierBodyCell", "InvalidVerifierId",
      "MessageExpired", "InvalidSourcesRegistryAddress",
      "InvalidSourcesRegistryBodyCell", "InvalidDeploySourceOp", "InvalidVerifierId">>

\* C10: the cascade reports the error of the earliest check the message
\* violates, in the order InvalidCell, InvalidOperation,
\* InvalidVerifierBodyCell, InvalidVerifierId (outer), MessageExpired,
\* InvalidSourcesRegistryAddress, InvalidSourcesRegistryBodyCell,
\* InvalidDeploySourceOp, InvalidVerifierId (inner); a message goes past the
\* validator only if it violates none.
C10_CascadeOrder ==
    /\ SignDone =>
          IF Violated # {}
          THEN /\ call.ret = "throw"
               /\ call.v.step = Earliest(Violated)
               /\ call.err = CascadeErrors[Earliest(Violated)]
          ELSE call.v.step = StepNone
    /\ call.op = "sign" /\ call.pc \in {"read", "sources", "compile"} =>
          /\ Violated = {}
          /\ call.v.err = ""

\* A message that is expired, addressed to another registry and holding a
\* wrong deploy op has been turned down as expired.
C10_Witness ==
    /\ SignDone
    /\ {StepExpired, StepRegistryAddress, StepDeploySourceOp} \subseteq Violated
    /\ call.err = "MessageExpired"

\* The checks made before the expiry check have passed.
EarlierPassed == \A k \in StepRoot..StepVerifierIdOuter : ~Violates(k)

\* C11: a cosign fails with MessageExpired exactly when the checks before
\* the expiry check passed and the payload's expiresAt is less than or equal
\* to the time of the validation, expiresAt = now included; a message with
\* expiresAt > now is never turned down as expired.
C11_ExpiryBoundary ==
    SignDone =>
        /\ call.err = "MessageExpired" <=> (EarlierPassed /\ InExpiresAt <= call.at)
        /\ EarlierPassed /\ InExpiresAt > call.at => call.v.step > StepExpired

\* A message whose expiresAt is the time of the validation, later than 0,
\* has been turned down as expired.
C11_Witness ==
    /\ SignDone /\ EarlierPassed
    /\ InExpiresAt = call.at /\ call.at > 0
    /\ call.err = "MessageExpired"

\* What the claims read of a propose call.
ProposeDone == call.op = "addSource" /\ call.pc = "done"
CompileNotMatch(res) == res.result # "similar" \/ res.error \/ res.hash = 0
AllowsReverification == controllers[call.c].config.allowReverification
\* The value returned holds a compile result and nothing else, and nothing
\* was written or signed on the way.
ReturnsResultOnly ==
    /\ call.ret = "compileResult"
    /\ call.writes = 0 /\ ~call.signed
    /\ call.sig = <<>> /\ call.ipfsLink = <<>> /\ call.out = EmptyCell

\* C12: when the compiler's result for a propose is not a hash match (a
\* result other than similar, or an error, or no hash), the propose returns
\* that result as it is, with no signature, no storage pointer and no
\* message, and has made no chain-reader query, no storage write and no
\* signature; no later step of propose is ever taken on such a result.
C12_FailedCompileInert ==
    /\ ProposeDone /\ CompileNotMatch(call.compile) =>
          /\ ReturnsResultOnly
          /\ call.result = call.compile
          /\ call.queries = 0
          /\ call.err = ""
    /\ call.op = "addSource" /\ call.pc \in {"deployed", "upload", "uploadSpec"} =>
          ~CompileNotMatch(call.compile)

\* A propose whose compilation was similar with a hash, but with an error,
\* has returned on a controller that would have asked the chain reader.
C12_Witness ==
    /\ ProposeDone /\ ~AllowsReverification
    /\ call.compile.result = "similar" /\ call.compile.hash # 0 /\ call.compile.error
    /\ call.ret = "compileResult"

MsgCodeHash == call.input.refs[1].refs[1].bits[4].v[1]
RecordDiffers == call.reads >= 1 /\ call.json.known /\ call.json.hash # MsgCodeHash
\* The cosign has thrown, and nothing was signed or returned.
ThrownUnsigned ==
    call.ret = "throw" /\ ~call.signed /\ call.out = EmptyCell

\* C14: when the hash of the SourceRecord fetched differs from the code
\* hash of the validated message, the cosign fails with CodeHashMismatch: no
\* source file has been read, the compiler has not been invoked, no
\* signature has been made; the steps after the comparison are taken only on
\* a record of the message's hash.
C14_CodeHashMismatch ==
    /\ SignDone /\ RecordDiffers =>
          /\ ThrownUnsigned
          /\ call.err = "CodeHashMismatch"
          /\ call.reads = 1
          /\ call.compiles = 0
    /\ call.op = "sign" /\ call.pc \in {"sources", "compile"} =>
          call.json.known /\ call.json.hash = MsgCodeHash

\* A cosign of a well-signed message has met a record of another hash.
C14_Witness ==
    /\ SignDone /\ call.v.err = ""
    /\ call.json.hash = OTHER_CODE_HASH /\ MsgCodeHash = CODE_HASH
    /\ call.err = "CodeHashMismatch"

\* The recompilation of a cosign did not reproduce the record's hash: the
\* compiler says so, or the hash it reports is another.
RecompiledDiffers ==
    /\ call.compiles >= 1
    /\ call.compile.result = "not_similar" \/ call.compile.hash # call.json.hash

\* C15 as stated: when the recompiled code hash differs from the hash of the
\* SourceRecord, the cosign fails with CodeHashMismatch.
C15_Original ==
    SignDone /\ RecompiledDiffers =>
        call.ret = "throw" /\ call.err = "CodeHashMismatch"

\* C15 amended: a recompilation that does not return similar makes the
\* cosign fail with InvalidCompilationResult; CodeHashMismatch is raised only
\* for a record whose hash differs from the message's, before any
\* recompilation, and never for what the compiler returned.
C15_RecompileMismatch ==
    /\ SignDone /\ call.compiles >= 1 /\ call.compile.result # "similar" =>
          call.ret = "throw" /\ call.err = "InvalidCompilationResult"
    /\ SignDone /\ call.err = "CodeHashMismatch" =>
          RecordDiffers /\ call.compiles = 0

\* The recompilation of a cosign of a well-signed message was not similar.
C15_Witness ==
    /\ SignDone /\ InChainValid
    /\ call.compile.result = "not_similar"
    /\ call.err = "InvalidCompilationResult"

\* C16: whenever the compiler re-invoked by a cosign returns a result other
\* than similar (not_similar, compile_error, unknown_error), the cosign fails
\* with InvalidCompilationResult, no signature is made or appended and the
\* message passed on stays as it was; a cosign has signed only if the
\* recompilation of that same call returned similar.
C16_InvalidCompilationResult ==
    /\ SignDone /\ call.compiles >= 1 /\ call.compile.result # "similar" =>
          /\ ThrownUnsigned
          /\ call.err = "InvalidCompilationResult"
          /\ call.fromWire => wire.cell = call.input
    /\ call.op = "sign" /\ (call.signed \/ call.ret = "message") =>
          /\ call.compiles = 1
          /\ call.compile.result = "similar"
    /\ SignOk => call.signed /\ Len(OutNodes) = Len(InNodes) + 1

\* The recompilation of the second cosign of a proposed message did not
\* compile.
C16_Witness ==
    /\ SignDone /\ call.fromWire /\ Len(InNodes) = 2
    /\ call.compile.result = "compile_error"
    /\ call.err = "InvalidCompilationResult"

\* The failures of the signature chain.
ChainErrors ==
    {"InvalidSignatureCell", "InvalidSignature", "NotInMultisigConfig",
     "DuplicateSignature", "TooManySignatures", "AlreadySignedBySelf"}

\* C17: in every cosign the fetch of the SourceRecord precedes the
\* recompilation, and the recompilation precedes any check of a signature
\* of the chain: no node of the chain has been inspected, and no failure of
\* the signature chain raised, before the compiler has been re-invoked and
\* has returned a hash match.
C17_RecompileBeforeSignatures ==
    /\ call.op = "sign" /\ call.compiles >= 1 => call.reads >= 1
    /\ call.op = "sign" /\ (call.v.inspected >= 1 \/ call.err \in ChainErrors) =>
          /\ call.reads >= 1
          /\ call.compiles >= 1 /\ call.compile.result = "similar"

\* The validation of the input of the call under config cfg at time t.
ValidationUnder(cfg, t) ==
    LET ctl == controllers[call.c] IN
    validateMessageCell(call.input, ctl.VERIFIER_SHA256,
                        ctl.config.sourcesRegistryAddress, ctl.keypair, cfg, t)

\* C18: a cosign fetches the config from the chain reader exactly once,
\* before any validation of the message: while the fetch is awaited nothing
\* has been validated, and from then on the call holds one fetch, of the
\* config the chain reader holds, and the validation it made is the one
\* under that config, whatever config an earlier call was given.
C18_ConfigFetchedOnce ==
    /\ call.op = "sign" /\ call.pc = "config" =>
          /\ call.fetches = 0
          /\ call.v = IdleCall.v /\ call.err = ""
    /\ call.op = "sign" /\ call.pc # "config" =>
          /\ call.fetches = 1
          /\ call.cfg = chainConfig
          /\ call.v = ValidationUnder(call.cfg, call.at)

\* Verifier 3, whose cosign completed the chain (1,2,3) under a config that
\* held it, is called again after the verifiers have become (1,2): the call
\* fails on the third node as not configured.
C18_Witness ==
    /\ SignDone /\ call.fromWire /\ call.c = 3
    /\ KeysOf(InNodes) = <<1, 2, 3>>
    /\ call.cfg = [quorum |-> 3, verifiers |-> <<1, 2>>]
    /\ call.err = "NotInMultisigConfig" /\ call.v.inspected = 3

\* Node j of the input chain is well formed and validly signed, by a key
\* that is not of the config fetched.
UnconfiguredAt(j) ==
    LET n == InNodes[j] IN
    /\ IsSigNode(n) /\ Len(n.refs) <= 1
    /\ NodeSig(n) = <<NodeKey(n)>> \o CellHash(call.input.refs[1])
    /\ \A i \in 1..Len(call.cfg.verifiers) : call.cfg.verifiers[i] # NodeKey(n)

\* The nodes before node j are well formed, validly signed by configured
\* verifiers, and hold distinct keys.
ValidBefore(j) ==
    LET pre == SubSeq(InNodes, 1, j - 1) IN
    /\ WellFormedChain(pre)
    /\ AllVerify(pre, CellHash(call.input.refs[1]))
    /\ AllConfigured(pre, call.cfg)
    /\ NoKeyTwice(pre)

\* C19 as stated: under a quorum above 1, the validation of a chain that
\* holds, at whatever position, a well-formed node validly signed by a key
\* outside config.verifiers fails with NotInMultisigConfig.
C19_Original ==
    SignDone /\ call.cfg.quorum > 1 =>
        \A j \in 1..Len(InNodes) :
            UnconfiguredAt(j) => call.ret = "throw" /\ call.err = "NotInMultisigConfig"

\* C19 amended: it does when the envelope passes, the node stands at a
\* position j <= quorum and the nodes before it are well formed and validly
\* signed by configured verifiers, no key twice; the walk then stops at
\* node j.
C19_NotInMultisigConfig ==
    SignDone /\ call.cfg.quorum > 1 /\ Violated = {} =>
        \A j \in 1..Len(InNodes) :
            UnconfiguredAt(j) /\ j <= call.cfg.quorum /\ ValidBefore(j) =>
                /\ call.ret = "throw" /\ call.err = "NotInMultisigConfig"
                /\ call.v.inspected = j

\* A configured verifier's cosign of a chain whose third node is validly
\* signed by a key outside the config has failed at that node.
C19_Witness ==
    /\ SignDone /\ call.cfg.quorum = 3 /\ OwnKey \in Members /\ Violated = {}
    /\ Len(InNodes) = 3 /\ UnconfiguredAt(3) /\ ValidBefore(3)
    /\ call.err = "NotInMultisigConfig" /\ call.v.inspected = 3

\* The running verifier's own key is not of the config fetched.
RunnerOutside ==
    \A i \in 1..Len(call.cfg.verifiers) : call.cfg.verifiers[i] # OwnKey

\* C20 as stated: the cosign by a verifier whose own key is not a member of
\* config.verifiers fails with NotInMultisigConfig, whatever the chain.
C20_Original ==
    SignDone /\ RunnerOutside =>
        call.ret = "throw" /\ call.err = "NotInMultisigConfig"

\* C20 amended: such a cosign always fails, nothing signed and no message
\* returned; it fails with NotInMultisigConfig when the envelope passes, the
\* quorum is above 1 and the chain is shorter than the quorum, well formed,
\* validly signed by configured verifiers, no key twice, every node of it
\* inspected first. Hence the key a successful cosign signs with is of the
\* config.
C20_OutsiderRejected ==
    /\ SignDone /\ RunnerOutside => ThrownUnsigned
    /\ SignDone /\ RunnerOutside /\ Violated = {} /\ call.cfg.quorum > 1
         /\ InChainValid /\ Len(InNodes) < call.cfg.quorum =>
            /\ call.err = "NotInMultisigConfig"
            /\ call.v.inspected = Len(InNodes)
    /\ SignOk => ~RunnerOutside

\* The cosign of a valid chain of two configured verifiers under quorum 3,
\* by a verifier outside the config, has failed after the whole chain was
\* inspected.
C20_Witness ==
    /\ SignDone /\ RunnerOutside /\ call.cfg.quorum = 3
    /\ Len(InNodes) = 2 /\ InChainValid /\ Violated = {}
    /\ call.err = "NotInMultisigConfig" /\ call.v.inspected = 2
    /\ ThrownUnsigned

\* Node n has not exactly the bits of a signature and a key, or carries more
\* than one reference.
Malformed(n) == SumWidths(n.bits) # SIG_BITS + KEY_BITS \/ Len(n.refs) > 1

\* C21 as stated: the validation of a chain that holds a malformed node
\* fails with InvalidSignatureCell; no cosign succeeds on a message whose
\* chain head is an empty cell.
C21_Original ==
    /\ SignDone => \A j \in 1..Len(InNodes) :
          Malformed(InNodes[j]) => call.ret = "throw" /\ call.err = "InvalidSignatureCell"
    /\ SignOk => call.input.refs[2] # EmptyCell

\* C21 amended: it fails with InvalidSignatureCell, at node j, when the
\* envelope passes, quorum > 1, the malformed node stands at a position
\* j <= quorum and the nodes before it are well formed and validly signed by
\* configured verifiers, no key twice; a message whose chain head is an
\* empty cell is always turned down, and the chain of every message a cosign
\* succeeds on is made of SignatureNodes, at least one.
C21_InvalidSignatureCell ==
    /\ SignDone /\ call.cfg.quorum > 1 /\ Violated = {} =>
          \A j \in 1..Len(InNodes) :
              Malformed(InNodes[j]) /\ j <= call.cfg.quorum /\ ValidBefore(j) =>
                  /\ call.ret = "throw" /\ call.err = "InvalidSignatureCell"
                  /\ call.v.inspected = j
    /\ SignDone /\ call.input.refs[2] = EmptyCell => ThrownUnsigned
    /\ SignOk => Len(InNodes) >= 1 /\ \A j \in 1..Len(InNodes) : ~Malformed(InNodes[j])

\* A chain whose second node carries two references, behind a valid first
\* node, has been turned down at the second node.
C21_Witness ==
    /\ SignDone /\ call.cfg.quorum > 1 /\ Violated = {}
    /\ Len(InNodes) >= 2 /\ ValidBefore(2)
    /\ SumWidths(InNodes[2].bits) = SIG_BITS + KEY_BITS /\ Len(InNodes[2].refs) = 2
    /\ call.err = "InvalidSignatureCell" /\ call.v.inspected = 2

\* ------------------------------------------------- one message, accumulated
\* The result of a compiler that finds the declared hash.
SimilarResult == [result |-> "similar", hash |-> CODE_HASH, error |-> FALSE]

\* The configs under which a chain is walked.
LiveConfigs == {cfg \in Configs : cfg.quorum > 1}

\* No message yet, under a config that stays as it is.
InitLive ==
    /\ now = 0
    /\ chainConfig \in LiveConfigs
    /\ storage = EmptyStorage
    /\ controllers = InitControllers
    /\ call = IdleCall
    /\ wire = NoWire
    /\ waiting = IdleCall

\* The chain of the latest message returned.
WireNodes == ChainNodes(wire.cell.refs[2])
WireExpiresAt == wire.cell.refs[1].bits[2].v[1]

\* Verifier c is configured and has not signed the latest message.
Remaining(c) ==
    /\ wire.some
    /\ \E i \in 1..Len(chainConfig.verifiers) : chainConfig.verifiers[i] = c
    /\ \A j \in 1..Len(WireNodes) : NodeKey(WireNodes[j]) # c

\* The latest message carries quorum signatures.
WireFull == wire.some /\ Len(WireNodes) = chainConfig.quorum

\* A configured verifier proposes, once.
ProposeLive(c) ==
    /\ ~wire.some /\ call.pc = "idle"
    /\ \E i \in 1..Len(chainConfig.verifiers) : chainConfig.verifiers[i] = c
    /\ AddSourceStart(c)

\* The collaborators of propose succeed: the compiler finds the hash, the
\* contract is not yet attested, the uploads are made.
ProposeStepLive ==
    \/ AddSourceCompiled(SimilarResult)
    \/ AddSourceDeployed(FALSE)
    \/ AddSourceUpload
    \/ \E q \in QueryIds : AddSourceSpecUploaded(q)

\* A verifier that has not signed yet cosigns the latest message.
CosignLatest(c) == Remaining(c) /\ SignStart(c, wire.cell, TRUE)

\* Whoever it is cosigns the message that carries quorum signatures, or
\* that every configured verifier has signed.
CosignFull(c) ==
    /\ WireFull \/ (wire.some /\ \A k \in Keys : ~Remaining(k))
    /\ SignStart(c, wire.cell, TRUE)

\* The collaborators of cosign succeed.
CallStepLive ==
    \/ SignConfig
    \/ SignRead
    \/ SignSources
    \/ SignCompiled(SimilarResult)

\* Time passes, the message not expiring.
TickLive == (wire.some => now + 1 < WireExpiresAt) /\ Tick

NextLive ==
    \/ \E c \in Keys : ProposeLive(c)
    \/ ProposeStepLive
    \/ \E c \in Keys : CosignLatest(c)
    \/ \E c \in Keys : CosignFull(c)
    \/ CallStepLive
    \/ TickLive

\* Every call started runs to its end, a configured verifier proposes, and
\* as long as a configured verifier has not signed the latest message one of
\* them cosigns it; after that the cosigns go on, whoever makes them.
SpecLive ==
    /\ InitLive /\ [][NextLive]_vars
    /\ WF_vars(\E c \in Keys : ProposeLive(c))
    /\ WF_vars(ProposeStepLive)
    /\ WF_vars(CallStepLive)
    /\ WF_vars(\E c \in Keys : CosignLatest(c))
    /\ WF_vars(\E c \in Keys : CosignFull(c))

\* The latest message carries exactly quorum signatures, of as many
\* configured verifiers, all valid.
Complete ==
    /\ WireFull
    /\ WellFormedChain(WireNodes)
    /\ AllVerify(WireNodes, CellHash(wire.cell.refs[1]))
    /\ AllConfigured(WireNodes, chainConfig)
    /\ NoKeyTwice(WireNodes)

\* No cosign of the complete message succeeds.
CompleteIsTerminal ==
    Complete /\ SignDone /\ call.input = wire.cell => call.ret = "throw"

\* C22 as stated: the message proposed by a configured verifier under a
\* quorum q > 1 comes to carry exactly q signatures of q distinct verifiers,
\* and from then on no cosign succeeds.
C22_Original == <>[]Complete /\ []CompleteIsTerminal

\* C22 amended: it does when the config holds at least q verifiers.
C22_Accumulation ==
    /\ Len(chainConfig.verifiers) >= chainConfig.quorum => <>[]Complete
    /\ []CompleteIsTerminal

\* The message carries MaxQuorum signatures and a further cosign of it has
\* failed.
C22_Witness ==
    /\ Complete /\ chainConfig.quorum = MaxQuorum
    /\ SignDone /\ call.input = wire.cell /\ call.err = "TooManySignatures"

\* ------------------------------------------------- the append, on its own
\* addSignatureCell is about to be applied to a hand-made chain, the empty
\* cell among them, and to the SignatureNode of verifier c.
InitAppend ==
    /\ now = 0
    /\ chainConfig = Q3
    /\ storage = EmptyStorage
    /\ controllers = InitControllers
    /\ wire = NoWire
    /\ waiting = IdleCall
    /\ \E c \in Keys, ks \in ChainSpecs :
          call = [IdleCall EXCEPT !.op = "append", !.c = c, !.pc = "compile",
                                  !.input = chainOfKinds(ks, suitePayload(MaxTime + 1))]

\* addSignatureCell(node, sigCell) returns or throws.
AppendStep ==
    /\ call.op = "append" /\ call.pc = "compile"
    /\ LET sigCell == signatureCell(suitePayload(MaxTime + 1),
                                    controllers[call.c].keypair).sigCell
           r == addSignatureCell(call.input, sigCell)
       IN  call' = IF r.err # ""
                   THEN [call EXCEPT !.pc = "done", !.ret = "throw", !.err = r.err]
                   ELSE [call EXCEPT !.pc = "done", !.ret = "message", !.out = r.cell]
    /\ UNCHANGED <<now, chainConfig, storage, controllers, wire, waiting>>

SpecAppend == InitAppend /\ [][AppendStep]_vars

AppendDone == call.op = "append" /\ call.pc = "done"
\* The nodes the descent goes through, were it never to stop.
DescentNodes == ChainNodes(call.input)
ExtraRefAt(j) == Len(DescentNodes[j].refs) > 1

\* C23: the append fails with TooManyReferences exactly when some node of
\* the descent from head to tail carries a reference beyond the one
\* followed, at whatever depth; it then produces no chain, and after a
\* successful append every node visited held at most one reference.
C23_TooManyReferences ==
    AppendDone =>
        /\ (\E j \in 1..Len(DescentNodes) : ExtraRefAt(j)) =>
              call.ret = "throw" /\ call.err = TooManyReferences /\ call.out = EmptyCell
        /\ call.ret = "message" =>
              /\ \A j \in 1..Len(DescentNodes) : Len(DescentNodes[j].refs) <= 1
              /\ call.out # EmptyCell

\* The append has failed on a chain whose third node carries two references,
\* the first two carrying one each.
C23_Witness ==
    /\ AppendDone /\ Len(DescentNodes) >= 3
    /\ ~ExtraRefAt(1) /\ ~ExtraRefAt(2) /\ ExtraRefAt(3)
    /\ call.err = TooManyReferences /\ call.out = EmptyCell

\* The validator's walk of the chain the append returned, under the config.
AppendWalk ==
    walkChain(call.out, <<>>, CellHash(suitePayload(MaxTime + 1)), chainConfig)

ConcurrentChains == SeqsUpTo({[kind |-> "valid", pk |-> k] : k \in 1..2}, 2) \ {<<>>}

\* A propose call on controller c, awaiting the compiler.
ProposeOn(c) == [IdleCall EXCEPT !.op = "addSource", !.c = c, !.pc = "compile"]

\* Two calls are in flight, each a cosign of the same message or a propose,
\* on the same controller or on two.
InitConcurrent ==
    /\ now = 0
    /\ chainConfig \in [quorum : 1..MaxQuorum, verifiers : {SeqOfRange(1, MaxQuorum)}]
    /\ storage = SuiteStorage(CODE_HASH)
    /\ controllers = InitControllers
    /\ wire = NoWire
    /\ \E c1 \in Keys, c2 \in Keys, ks \in ConcurrentChains :
          LET m == validWrappingCell(suitePayload(MaxTime + 1),
                                     chainOfKinds(ks, suitePayload(MaxTime + 1)))
          IN  /\ call \in {CallOn(c1, m), ProposeOn(c1)}
              /\ waiting \in {CallOn(c2, m), ProposeOn(c2)}

\* The call in progress stays at its await and the other one, not yet
\* finished, goes on.
Resume ==
    /\ waiting.pc # "done"
    /\ call' = waiting
    /\ waiting' = call
    /\ UNCHANGED <<now, chainConfig, storage, controllers, wire>>

\* The steps of a propose call.
ProposeStep ==
    \/ \E res \in CompileResults : AddSourceCompiled(res)
    \/ \E d \in BOOLEAN : AddSourceDeployed(d)
    \/ AddSourceUpload
    \/ \E q \in QueryIds : AddSourceSpecUploaded(q)

NextConcurrent ==
    \/ CallStep
    \/ ProposeStep
    \/ Resume

SpecConcurrent == InitConcurrent /\ [][NextConcurrent]_vars

\* What a cosign k returns when it runs alone, given the answers its
\* collaborators gave it: the config, the clock, the record, the compiler's
\* result.
AloneSign(k) ==
    LET ctl == InitControllers[k.c]
        v == validateMessageCell(k.input, ctl.VERIFIER_SHA256,
                                 ctl.config.sourcesRegistryAddress, ctl.keypair,
                                 k.cfg, k.at)
        r == signAndAppend(k.input, ctl.keypair)
    IN  IF v.err # "" THEN [ret |-> "throw", err |-> v.err, out |-> EmptyCell]
        ELSE IF signJsonError(k.json, v.codeCellHash) # ""
        THEN [ret |-> "throw", err |-> signJsonError(k.json, v.codeCellHash),
              out |-> EmptyCell]
        ELSE IF signCompileError(k.compile) # ""
        THEN [ret |-> "throw", err |-> signCompileError(k.compile), out |-> EmptyCell]
        ELSE [ret |-> "message", err |-> "", out |-> r.cell]

\* What a propose k returns when it runs alone, given the compiler's result
\* and the chain reader's answer.
AlonePropose(k) ==
    LET ctl == InitControllers[k.c]
        link == ipfsHash(SourceItem(k.compile.hash, getNowHourRoundedDown(now),
                                    NUM_SOURCES))
    IN  IF addSourceCompileFailed(k.compile)
        THEN {[ret |-> "compileResult", err |-> "", out |-> EmptyCell]}
        ELSE IF ~ctl.config.allowReverification /\ k.isDeployed
        THEN {[ret |-> "compileResult", err |-> "AlreadyDeployed", out |-> EmptyCell]}
        ELSE {[ret |-> "message", err |-> "",
               out |-> addSourceMessage(ctl, ZERO_ADDRESS, q, k.compile.hash, link, now)]
              : q \in QueryIds}

Returned(k) == [ret |-> k.ret, err |-> k.err, out |-> k.out]
SameAsAlone(k) ==
    k.pc = "done" =>
        IF k.op = "sign" THEN Returned(k) = AloneSign(k)
        ELSE Returned(k) \in AlonePropose(k)

\* Both calls are cosigns of the same message, by two verifiers, and both
\* have returned a message.
BothCosigned ==
    /\ call.pc = "done" /\ waiting.pc = "done"
    /\ call.op = "sign" /\ waiting.op = "sign"
    /\ call.ret = "message" /\ waiting.ret = "message"
    /\ call.c # waiting.c

\* C25: neither operation changes a controller's identity hash, key pair
\* or configuration; whatever the interleaving of two calls at their
\* awaits, each returns what it returns alone given the same answers of its
\* collaborators; two verifiers that cosign the same message of k
\* signatures at the same time return each the chain of the message with
\* its own signature appended, k+1 nodes, the other's not among them.
C25_Independent ==
    /\ controllers = InitControllers
    /\ SameAsAlone(call) /\ SameAsAlone(waiting)
    /\ BothCosigned =>
          LET in == KeysOf(ChainNodes(call.input.refs[2]))
          IN  /\ waiting.input = call.input
              /\ KeysOf(ChainNodes(call.out.refs[2])) = Append(in, call.c)
              /\ KeysOf(ChainNodes(waiting.out.refs[2])) = Append(in, waiting.c)
              /\ waiting.c \notin Range(KeysOf(ChainNodes(call.out.refs[2])))
              /\ call.c \notin Range(KeysOf(ChainNodes(waiting.out.refs[2])))

\* Verifiers 2 and 3 have both cosigned, at the same time, the message
\* signed by verifier 1, under a quorum of three.
C25_Witness ==
    /\ BothCosigned /\ chainConfig.quorum = 3
    /\ KeysOf(ChainNodes(call.input.refs[2])) = <<1>>
    /\ call.c = 2 /\ waiting.c = 3
    /\ KeysOf(ChainNodes(call.out.refs[2])) = <<1, 2>>
    /\ KeysOf(ChainNodes(waiting.out.refs[2])) = <<1, 3>>

\* ------------------------------------------------- roots of more references
\* References a root may carry after the payload and the chain head: none,
\* one, two (a cell holds four at most).
ExtraRefs == {<<>>, <<EmptyCell>>, <<EmptyCell, ipfsLinkCell(SOME_LINK)>>}

\* One cosign of a message whose root carries the payload, a valid chain
\* and the references of ExtraRefs after them.
InitRoot ==
    /\ now = 0
    /\ chainConfig \in [quorum : 1..MaxQuorum, verifiers : {SeqOfRange(1, MaxQuorum)}]
    /\ storage = SuiteStorage(CODE_HASH)
    /\ controllers = InitControllers
    /\ wire = NoWire
    /\ waiting = IdleCall
    /\ \E c \in Keys, ks \in ConcurrentChains, extra \in ExtraRefs :
          LET p == suitePayload(MaxTime + 1)
              m == validWrappingCell(p, chainOfKinds(ks, p))
          IN  call = CallOn(c, MkCell(m.bits, m.refs \o extra))

SpecRoot == InitRoot /\ [][CallStep]_vars

\* C26: the root a successful cosign returns has the bits of the input
\* root, opCode and queryId, and exactly two references: the payload of the
\* input first, then the head of the chain, the input's chain with the new
\* node at its tail; so it is for an input root of more than two references
\* as well.
C26_RootLayout ==
    SignOk =>
        /\ call.out.bits = call.input.bits
        /\ Len(call.out.refs) = 2
        /\ call.out.refs[1] = call.input.refs[1]
        /\ KeysOf(ChainNodes(call.out.refs[2])) = Append(KeysOf(InNodes), OwnKey)

\* The proposer's key: that of the head of the chain of a message passed on.
ProposerKey == NodeKey(InNodes[1])
\* The config a cosign fetched has a quorum of 1 or less, or does not hold
\* the key of the proposer of its message.
ProposerNotConfigured ==
    \/ call.cfg.quorum <= 1
    \/ \A i \in 1..Len(call.cfg.verifiers) : call.cfg.verifiers[i] # ProposerKey

\* A propose whose compilation matches, the contract not found attested,
\* has returned a message of one valid signature, the proposer's, and has
\* fetched no config.
ProposeSigns ==
    /\ ProposeDone => call.fetches = 0 /\ call.cfg = IdleCall.cfg
    /\ ProposeDone /\ ~CompileNotMatch(call.compile) /\ ~call.isDeployed =>
          LET nodes == ChainNodes(call.out.refs[2]) IN
          /\ call.ret = "message"
          /\ Len(nodes) = 1 /\ IsSigNode(nodes[1]) /\ NodeKey(nodes[1]) = OwnKey
          /\ AllVerify(nodes, CellHash(call.out.refs[1]))

\* C27 as stated: propose fetches no config and signs whoever the proposer
\* is and whatever the quorum; every later cosign of a message whose
\* proposer is not configured, or made under a quorum of 1 or less, fails
\* with NotInMultisigConfig or QuorumTooSmall.
C27_Original ==
    /\ ProposeSigns
    /\ SignDone /\ call.fromWire /\ ProposerNotConfigured =>
          /\ call.ret = "throw"
          /\ call.err \in {"NotInMultisigConfig", "QuorumTooSmall"}

\* C27 amended: every such cosign fails, the proposer judged by the config
\* the cosign fetches; it fails with QuorumTooSmall under a quorum of 1 or
\* less and with NotInMultisigConfig otherwise, at the first node, when the
\* envelope passes, and with the envelope's error when it does not.  A
\* cosign succeeds only on a message whose proposer is in the config it
\* fetched.
C27_UnconfiguredProposer ==
    /\ ProposeSigns
    /\ SignDone /\ call.fromWire /\ ProposerNotConfigured =>
          /\ ThrownUnsigned
          /\ Violated = {} =>
                call.err = IF call.cfg.quorum <= 1 THEN "QuorumTooSmall"
                           ELSE "NotInMultisigConfig"
          /\ Violated # {} => call.err = stepError(Earliest(Violated))
    /\ SignOk /\ call.fromWire => ~ProposerNotConfigured

\* The cosign by a configured verifier of the message proposed by a
\* verifier outside the config has failed at the proposer's node.
C27_Witness ==
    /\ SignDone /\ call.fromWire /\ ProposerKey = Outsider /\ Len(InNodes) = 1
    /\ call.cfg.quorum > 1 /\ OwnKey \in Members /\ Violated = {}
    /\ call.err = "NotInMultisigConfig" /\ call.v.inspected = 1
=============================================================================
